---- MODULE Spec2Model ----
(***************************************************************************)
(* Agri-Aide: the client-side orchestration of the crop-diagnosis app.     *)
(*                                                                         *)
(* The model follows src/App.tsx (AppContent: screen state machine, the    *)
(* per-image per-language result cache, the persisted scan history),       *)
(* src/components/HomeScreen.tsx (crop / image selection and submit),      *)
(* src/components/ResultsScreen.tsx (language effect, speech playback),    *)
(* src/services/geminiService.ts (analyzeCropImage's error mapping) and    *)
(* the chat navigation of the App variant in src/unnamed/part_003.         *)
(*                                                                         *)
(* One TLA+ step is one run of the browser's event loop: a user event with *)
(* the React render and effects it triggers, or the resolution of one      *)
(* pending promise / media event with everything that runs after it.       *)
(***************************************************************************)
EXTENDS Integers, Sequences, FiniteSets, TLC

\* ---------------------------------------------------------------- bounds
NumImages == 2
NumCrops == 2
NumLangs == 2
MaxModelCalls == 2
MaxAudio == 2
MaxMessages == 4
\* confidence scores tried, in thousandths: every one up to MaxMilli in size,
\* and every multiple of one half up to MaxHalf halves in size
MaxMilli == 1500
MaxHalf == 300
\* characters of a model text, grounding chunks of a response
MaxText == 4
MaxChunks == 2
\* bytes of an audio payload, samples of an encoded sequence
MaxBytes == 5
MaxSamples == 3

Images == 1..NumImages
Crops == 1..NumCrops
\* Language enum of src/types.ts; EN is the provider's initial language.
EN == 1
Langs == 1..NumLangs

\* ---------------------------------------------------------------- values
\* null / undefined for ids (image, crop, language)
Null == 0

\* AnalysisResult: the diagnosis the model gave for (image, crop) in a
\* language; cropMismatch as returned by the model.
Result(image, crop, lang, mismatch) ==
  [image |-> image, crop |-> crop, language |-> lang, cropMismatch |-> mismatch]

NullResult == Result(Null, Null, Null, FALSE)

\* ScanHistoryItem
HistoryItem(crop, image, result, location) ==
  [crop |-> crop, image |-> image, result |-> result, location |-> location]

NullItem == HistoryItem(Null, Null, NullResult, FALSE)

\* t(key) of LanguageContext: the string of `key` in the table of `lang`.
T(lang, key) == [key |-> key, lang |-> lang]

NullError == [key |-> "", lang |-> Null]

\* AppScreen enum
HOME == "home"
ANALYZING == "analyzing"
RESULTS == "results"
HISTORY == "history"
HISTORY_DETAIL == "history_detail"
ABOUT == "about"
CHAT == "chat"

VARIABLES
  \* AppContent
  screen, history, currentResult, currentImage, currentCrop, historyDetail,
  error, cache,
  \* LanguageProvider
  language,
  \* process.env.API_KEY is set (fixed for the session)
  apiKey,
  \* the handleAnalyze call that is awaiting getPosition / analyzeCropImage
  analysis,
  \* HomeScreen
  selectedCrop, selectedImage, homeError,
  \* ResultsScreen (the mounted instance)
  isSpeaking, isLoadingSpeech, actionError, lastLanguageRef,
  \* TTS requests in flight and audio sources started, of every instance
  audio,
  \* ChatScreen (the mounted instance): input.trim() is not empty, isLoading,
  \* the transcript, the sends still awaiting their reply; and the screen Chat
  \* was opened from
  chatInput, chatLoading, messages, sends, chatFrom,
  \* observation: per (image, language) the model requests issued so far and
  \* those that came back with a result that was not a mismatch; what the last
  \* step did
  modelCalls, okCalls, ev,
  \* analyzeCropImage after JSON.parse: the copy of the service that runs, the
  \* confidenceScore of the parsed object and that of the returned result; or
  \* analyzeCropImage as a whole: the copy that runs, the response the model
  \* call would give, and how the call settled
  reply,
  \* decodeAudioData(decodeBase64(base64Audio), ctx, 24000, 1): the base64
  \* text, the bytes, and the channel data or the failure
  decoding

appVars == <<screen, history, currentResult, currentImage, currentCrop,
             historyDetail, error, cache>>
homeVars == <<selectedCrop, selectedImage, homeError>>
speechVars == <<isSpeaking, isLoadingSpeech, actionError, lastLanguageRef, audio>>
obsVars == <<modelCalls, okCalls, reply, decoding>>
chatVars == <<chatInput, chatLoading, messages, sends, chatFrom>>
vars == <<screen, history, currentResult, currentImage, currentCrop,
          historyDetail, error, cache, language, apiKey, analysis,
          selectedCrop, selectedImage, homeError,
          isSpeaking, isLoadingSpeech, actionError, lastLanguageRef, audio,
          chatInput, chatLoading, messages, sends, chatFrom,
          modelCalls, okCalls, ev, reply, decoding>>

\* ---------------------------------------------------------------- events
NoCall == [crop |-> Null, image |-> Null, language |-> Null]

\* What one step did: `call` the handleAnalyze invocation it made (with the
\* target language), `by` who made it, `io` the external request it issued,
\* `outcome` the analysis outcome it delivered, `tts` what a TTS resolution
\* did, `item` the position of the history item a "view" step was given.
NoEvent ==
  [call |-> NoCall, by |-> "", io |-> "none", outcome |-> "none", tts |-> "none",
   item |-> 0]

\* ---------------------------------------------------------------- helpers
NoAnalysis ==
  [pc |-> "idle", crop |-> Null, image |-> Null, targetLanguage |-> Null,
   t |-> Null, history |-> <<>>, location |-> FALSE, by |-> ""]

RECURSIVE HasImage(_, _)
\* history.some(item => item.image === image)
HasImage(hist, image) ==
  IF hist = <<>> THEN FALSE
  ELSE Head(hist).image = image \/ HasImage(Tail(hist), image)

RECURSIVE SumOver(_, _)
SumOver(f, S) ==
  IF S = {} THEN 0
  ELSE LET x == CHOOSE y \in S : TRUE IN f[x[1]][x[2]] + SumOver(f, S \ {x})

\* the number of model requests issued in this session
NumModelCalls == SumOver(modelCalls, Images \X Langs)

\* the ResultsScreen component is rendered on these two screens
MountedWhileAnalyzing(s) == s \in {RESULTS, HISTORY_DETAIL, ANALYZING}

Mounted(s) == s \in {RESULTS, HISTORY_DETAIL}


\* ------------------------------------------------ audio objects (TTS, Web Audio)
\* One record per TTS request in flight (kind "request"), per started source
\* still playing ("playing") and per source of the mounted instance that was
\* stopped and whose ended event is still queued ("stopped"):
\*   live      issued by the ResultsScreen instance that is mounted now,
\*   ref       audioSourceRef.current of that instance points to the source,
\*   cancelled the request was cancelled or superseded while in flight.
\* Sources are interchangeable, so the objects are kept as a list in a fixed
\* order (Canon): the list stands for the bag of them.
AudioObject(kind, live, ref, cancelled) ==
  [kind |-> kind, live |-> live, ref |-> ref, cancelled |-> cancelled]

Rank(x) ==
  (CASE x.kind = "request" -> 0 [] x.kind = "playing" -> 8 [] OTHER -> 16)
  + (IF x.live THEN 4 ELSE 0) + (IF x.ref THEN 2 ELSE 0) + (IF x.cancelled THEN 1 ELSE 0)

RECURSIVE Insert(_, _)
Insert(x, a) ==
  IF a = <<>> THEN <<x>>
  ELSE IF Rank(x) <= Rank(Head(a)) THEN <<x>> \o a
  ELSE <<Head(a)>> \o Insert(x, Tail(a))

RECURSIVE Canon(_)
Canon(a) == IF a = <<>> THEN <<>> ELSE Insert(Head(a), Canon(Tail(a)))

RECURSIVE RemoveAt(_, _)
RemoveAt(a, i) ==
  IF i = 1 THEN Tail(a) ELSE <<Head(a)>> \o RemoveAt(Tail(a), i - 1)

\* audioSourceRef.current !== null
RefSet(a) == \E i \in 1..Len(a) : a[i].live /\ a[i].ref

Playing(a) == {i \in 1..Len(a) : a[i].kind = "playing"}

\* audioSourceRef.current.stop(), the reference kept
StopOne(x) ==
  IF x.live /\ x.ref /\ x.kind = "playing" THEN [x EXCEPT !.kind = "stopped"] ELSE x

StopRef(a) == Canon([k \in 1..Len(a) |-> StopOne(a[k])])

\* (variant: nothing is stopped)
ClearOneKeepsPlaying(x) == x

\* audioSourceRef.current.stop(); audioSourceRef.current = null
ClearOne(x) ==
  IF x.live /\ x.ref THEN [x EXCEPT !.kind = "stopped", !.ref = FALSE] ELSE x

StopAndClearRef(a) == Canon([k \in 1..Len(a) |-> ClearOne(a[k])])

\* a change of language or of the displayed result supersedes the requests
\* that are still in flight
CancelOne(x) ==
  IF x.live /\ x.kind = "request" THEN [x EXCEPT !.cancelled = TRUE] ELSE x

CancelRequests(a) == Canon([k \in 1..Len(a) |-> CancelOne(a[k])])

OrphanOne(x) == [x EXCEPT !.live = FALSE, !.ref = FALSE]

KeptAfterUnmount(x) == ~(x.live /\ x.kind = "stopped")

\* The instance unmounts: the cleanup effect stops audioSourceRef.current;
\* requests in flight and sources that lost the reference live on, and the
\* ended events of stopped sources set state of an instance that is gone.
UnmountAudio(a) ==
  LET kept == SelectSeq(CancelRequests(StopRef(a)), KeptAfterUnmount)
  IN Canon([k \in 1..Len(kept) |-> OrphanOne(kept[k])])

\* Local state and audio after a render that moves from screen s to screen s2:
\* a fresh instance, the same instance, or none.
SpeechOnNavigate(s, s2, resultChanged) ==
  IF Mounted(s) /\ Mounted(s2)
    THEN /\ audio' = IF resultChanged THEN CancelRequests(StopRef(audio)) ELSE audio
         /\ UNCHANGED <<isSpeaking, isLoadingSpeech, actionError, lastLanguageRef>>
    ELSE /\ audio' = IF Mounted(s) THEN UnmountAudio(audio) ELSE audio
         /\ isSpeaking' = FALSE
         /\ isLoadingSpeech' = FALSE
         /\ actionError' = FALSE
         /\ lastLanguageRef' = IF Mounted(s2) THEN language' ELSE Null

\* HomeScreen's state is lost when it unmounts and initial when it mounts
HomeOnNavigate(s2) ==
  /\ selectedCrop' = Null
  /\ selectedImage' = Null
  /\ homeError' = FALSE

\* ---------------------------------------------------------------- ChatScreen
NoSends == [cur |-> 0, old |-> 0]

\* A transcript entry: its text, and whether the session it belongs to is
\* the one of chatInstanceRef.current ("cur") or one since replaced ("old").
Message(session, text) == [session |-> session, text |-> text]

\* setMessages([{ role: 'model', text: t('chatWelcome') }])
Welcome == <<Message("cur", "welcome")>>

\* ChatScreen's state after a render that moves from screen s to screen s2: a
\* fresh instance whose effect starts the session and sets the transcript to
\* the welcome message, or none. The reply to a send of an instance that is
\* gone updates nothing, so such sends are not kept.
ChatOnNavigate(s, s2) ==
  /\ chatInput' = FALSE
  /\ chatLoading' = FALSE
  /\ messages' = IF s2 = CHAT THEN Welcome ELSE <<>>
  /\ sends' = NoSends
  /\ chatFrom' = IF s2 = CHAT THEN s ELSE ""

\* ChatScreen's effect on [crop, diagnosis, language, t] when the language
\* changes: a new session replaces chatInstanceRef.current, the transcript is
\* set to the welcome message; input and isLoading stay
ChatOnLanguage ==
  IF screen = CHAT
    THEN /\ messages' = Welcome
         /\ sends' = [cur |-> 0, old |-> sends.old + sends.cur]
         /\ UNCHANGED <<chatInput, chatLoading, chatFrom>>
    ELSE UNCHANGED chatVars

\* ---------------------------------------------------------------- render
\* renderScreen: the screen that ends up showing after setScreen(s), given the
\* values the render sees (the guards of the RESULTS, CHAT and HISTORY_DETAIL
\* cases call resetToHome / setScreen(HISTORY) during render).
RenderedScreen(s, result, image, crop, detail) ==
  CASE s = RESULTS ->
         IF result # NullResult /\ image # Null /\ crop # Null THEN RESULTS ELSE HOME
    [] s = CHAT ->
         IF (result # NullResult \/ detail # NullItem) /\ (crop # Null \/ detail # NullItem)
           THEN CHAT ELSE HOME
    [] s = HISTORY_DETAIL -> IF detail # NullItem THEN HISTORY_DETAIL ELSE HISTORY
    [] OTHER -> s

\* props of the mounted ResultsScreen
ShownResult == IF screen = HISTORY_DETAIL THEN historyDetail.result ELSE currentResult
ShownImage == IF screen = HISTORY_DETAIL THEN historyDetail.image ELSE currentImage
ShownCrop == IF screen = HISTORY_DETAIL THEN historyDetail.crop ELSE currentCrop


\* ---------------------------------------------------------------- analysis
\* (variant: the cache is never consulted)
CacheHitNever(c, image, targetLanguage) == FALSE

\* imageCache && imageCache[targetLanguage]
CacheHit(c, image, targetLanguage) == c[image][targetLanguage] # NullResult

\* handleAnalyze(crop, image, forceLanguage) of the render whose language is
\* `lang` and whose history is `hist`, called by `by`; up to its first await.
HandleAnalyze(crop, image, forceLanguage, lang, hist, by) ==
  LET targetLanguage == IF forceLanguage # Null THEN forceLanguage ELSE lang
      call == [crop |-> crop, image |-> image, language |-> targetLanguage]
  IN IF CacheHit(cache, image, targetLanguage)
       THEN /\ currentResult' = cache[image][targetLanguage]
            /\ currentImage' = image
            /\ currentCrop' = crop
            /\ screen' = RESULTS
            /\ ev' = [NoEvent EXCEPT !.call = call, !.by = by]
            /\ UNCHANGED <<error, analysis>>
       ELSE /\ NumModelCalls < MaxModelCalls
            /\ screen' = ANALYZING
            /\ currentImage' = image
            /\ currentCrop' = crop
            /\ error' = NullError
            /\ analysis' = [pc |-> "geo", crop |-> crop, image |-> image,
                            targetLanguage |-> targetLanguage, t |-> lang,
                            history |-> hist, location |-> FALSE, by |-> by]
            /\ ev' = [NoEvent EXCEPT !.call = call, !.by = by, !.io = "geo"]
            /\ UNCHANGED currentResult

\* What the model call of analyzeCropImage can come back with
Responses ==
  {"ok", "mismatch", "transport", "nocandidate", "safety", "empty", "nojson", "badjson"}

\* analyzeCropImage after the API-key check: the message of the Error it
\* throws on this response, "" when it returns a result
Thrown(response) ==
  CASE response = "transport" -> "ANALYSIS_FAILED"
    [] response = "nocandidate" -> "ANALYSIS_FAILED"
    [] response = "safety" -> "ANALYSIS_FAILED"
    [] response = "empty" -> "ANALYSIS_FAILED"
    [] response = "nojson" -> "ANALYSIS_FAILED"
    [] response = "badjson" -> "ANALYSIS_FAILED"
    [] OTHER -> ""

\* (variant: the two messages swapped)
ErrorKeySwapped(message) ==
  IF message = "API_KEY_NOT_CONFIGURED" THEN "errorAnalysis"
  ELSE IF message = "ANALYSIS_FAILED" THEN "errorApiKey"
  ELSE "errorGeneral"

\* the catch block of handleAnalyze: the translation key of the message
ErrorKey(message) ==
  IF message = "API_KEY_NOT_CONFIGURED" THEN "errorApiKey"
  ELSE IF message = "ANALYSIS_FAILED" THEN "errorAnalysis"
  ELSE "errorGeneral"

\* (variant: the image's entry is created anew on every write)
CacheAfterReset(c, image, targetLanguage, result) ==
  IF result.cropMismatch THEN c
  ELSE [c EXCEPT ![image] =
          [l \in Langs |-> IF l = targetLanguage THEN result ELSE NullResult]]

\* (variant: the cache is written before the mismatch check)
CacheAfterAlways(c, image, targetLanguage, result) ==
  [c EXCEPT ![image][targetLanguage] = result]

\* the cache after a result came back (the mismatch branch returns first)
CacheAfter(c, image, targetLanguage, result) ==
  IF result.cropMismatch THEN c
  ELSE [c EXCEPT ![image][targetLanguage] = result]

\* (variant: every scan counts as new)
IsNewScanAlways(hist, image) == TRUE

\* !history.some(item => item.image === image)
IsNewScan(hist, image) == ~HasImage(hist, image)

\* (variant: the new item is put last)
HistoryAfterAppended(cur, hist, crop, image, result, location) ==
  IF result.cropMismatch THEN cur
  ELSE IF IsNewScan(hist, image)
    THEN hist \o <<HistoryItem(crop, image, result, location)>>
    ELSE cur

\* the history after a result came back; hist is the history of the render
\* that created this handleAnalyze
HistoryAfter(cur, hist, crop, image, result, location) ==
  IF result.cropMismatch THEN cur
  ELSE IF IsNewScan(hist, image)
    THEN <<HistoryItem(crop, image, result, location)>> \o hist
    ELSE cur

\* (variant: the catch block sets the error and leaves the screen alone)
FailAnalysisStuck(key, outcome) ==
  /\ error' = T(analysis.t, key)
  /\ analysis' = NoAnalysis
  /\ ev' = [NoEvent EXCEPT !.outcome = outcome]
  /\ UNCHANGED <<screen, history, currentResult, currentImage, currentCrop,
                 historyDetail, cache, language, apiKey, homeVars, speechVars,
                 chatVars>>

\* handleAnalyze ends with an error: setError, setScreen(HOME)
FailAnalysis(key, outcome) ==
  /\ error' = T(analysis.t, key)
  /\ screen' = HOME
  /\ analysis' = NoAnalysis
  /\ ev' = [NoEvent EXCEPT !.outcome = outcome]
  /\ HomeOnNavigate(HOME)
  /\ UNCHANGED <<history, currentResult, currentImage, currentCrop, historyDetail,
                 cache, language, apiKey, speechVars, chatVars>>

\* getPosition resolves (a position, or null: unsupported, error, timeout);
\* analyzeCropImage starts: it throws without an API key, else calls the model
GeoResolve(pos) ==
  /\ analysis.pc = "geo"
  /\ IF ~apiKey
       THEN /\ FailAnalysis(ErrorKey("API_KEY_NOT_CONFIGURED"), "apikey")
            /\ UNCHANGED obsVars
       ELSE /\ analysis' = [analysis EXCEPT !.pc = "model", !.location = pos]
            /\ modelCalls' = [modelCalls EXCEPT ![analysis.image][analysis.targetLanguage] = @ + 1]
            /\ UNCHANGED <<okCalls, reply, decoding>>
            /\ ev' = [NoEvent EXCEPT !.io = "model"]
            /\ UNCHANGED <<appVars, language, apiKey, homeVars, speechVars, chatVars>>

\* the model call settles and handleAnalyze runs to its end
ModelResolve(response) ==
  /\ analysis.pc = "model"
  /\ UNCHANGED <<modelCalls, reply, decoding>>
  /\ okCalls' = IF response = "ok"
                  THEN [okCalls EXCEPT ![analysis.image][analysis.targetLanguage] = @ + 1]
                  ELSE okCalls
  /\ IF Thrown(response) # ""
       THEN FailAnalysis(ErrorKey(Thrown(response)), response)
       ELSE LET result == Result(analysis.image, analysis.crop,
                                 analysis.targetLanguage, response = "mismatch")
            IN /\ cache' = CacheAfter(cache, analysis.image, analysis.targetLanguage, result)
               /\ history' = HistoryAfter(history, analysis.history, analysis.crop,
                                          analysis.image, result, analysis.location)
               /\ analysis' = NoAnalysis
               /\ ev' = [NoEvent EXCEPT !.outcome = response]
               /\ UNCHANGED <<currentImage, currentCrop, historyDetail, language, apiKey,
                              chatVars>>
               /\ IF result.cropMismatch
                    THEN /\ error' = T(analysis.t, "errorCropMismatch")
                         /\ screen' = HOME
                         /\ HomeOnNavigate(HOME)
                         /\ UNCHANGED <<currentResult, speechVars>>
                    ELSE /\ currentResult' = result
                         /\ screen' = RESULTS
                         /\ SpeechOnNavigate(screen, screen', TRUE)
                         /\ UNCHANGED <<error, homeVars>>


\* ---------------------------------------------------------------- HomeScreen
\* the scan button is rendered once a crop is selected and is disabled
\* without an image
ScanButtonEnabled == selectedCrop # Null /\ selectedImage # Null

\* onClick of a crop tile
SelectCrop(crop) ==
  /\ screen = HOME
  /\ selectedCrop # crop
  /\ selectedCrop' = crop
  /\ ev' = NoEvent
  /\ UNCHANGED <<appVars, language, apiKey, analysis, selectedImage, homeError,
                 speechVars, obsVars, chatVars>>

\* onClick of the dismiss link
DismissSelection ==
  /\ screen = HOME
  /\ selectedCrop # Null
  /\ selectedCrop' = Null
  /\ selectedImage' = Null
  /\ ev' = NoEvent
  /\ UNCHANGED <<appVars, language, apiKey, analysis, homeError, speechVars, obsVars, chatVars>>

\* handleImageSelect (the uploader is rendered once a crop is selected)
HandleImageSelect(image) ==
  /\ screen = HOME
  /\ selectedCrop # Null
  /\ selectedImage # image
  /\ selectedImage' = image
  /\ homeError' = FALSE
  /\ ev' = NoEvent
  /\ UNCHANGED <<appVars, language, apiKey, analysis, selectedCrop, speechVars, obsVars, chatVars>>

\* (variant: a missing image is rejected without a message)
HomeErrorAfterSilent(crop, image, err) ==
  IF crop = Null \/ image = Null THEN err ELSE FALSE

\* HomeScreen's error after handleAnalyzeClick: untouched by the early return
\* for a missing crop, set for a missing image, cleared otherwise
HomeErrorAfter(crop, image, err) ==
  IF crop = Null THEN err ELSE IF image = Null THEN TRUE ELSE FALSE

\* {error && <p ...>} inside the block rendered when selectedCrop
InlineErrorShown == screen = HOME /\ selectedCrop # Null /\ homeError

\* handleAnalyzeClick
HandleAnalyzeClick ==
  /\ screen = HOME
  /\ UNCHANGED <<language, apiKey, history, cache, historyDetail, obsVars, chatVars>>
  /\ IF selectedCrop = Null \/ selectedImage = Null
       THEN /\ homeError' = HomeErrorAfter(selectedCrop, selectedImage, homeError)
            /\ ev' = [NoEvent EXCEPT !.by = "submit"]
            /\ UNCHANGED <<screen, currentResult, currentImage, currentCrop, error,
                           analysis, selectedCrop, selectedImage, speechVars>>
       ELSE /\ HandleAnalyze(selectedCrop, selectedImage, Null, language, history, "home")
            /\ HomeOnNavigate(screen')
            /\ SpeechOnNavigate(screen, screen', TRUE)

\* a click on the scan button
ScanButtonClick ==
  /\ ScanButtonEnabled
  /\ HandleAnalyzeClick

\* the close button of the error banner
DismissError ==
  /\ screen = HOME
  /\ error # NullError
  /\ error' = NullError
  /\ ev' = NoEvent
  /\ UNCHANGED <<screen, history, currentResult, currentImage, currentCrop,
                 historyDetail, cache, language, apiKey, analysis, homeVars,
                 speechVars, obsVars, chatVars>>

\* ---------------------------------------------------------------- navigation
\* (variant: the current result survives)
ResetToHomeKeepsResult ==
  /\ screen' = HOME
  /\ currentImage' = Null
  /\ currentCrop' = Null
  /\ historyDetail' = NullItem
  /\ error' = NullError
  /\ UNCHANGED currentResult

\* resetToHome
ResetToHome ==
  /\ screen' = HOME
  /\ currentResult' = NullResult
  /\ currentImage' = Null
  /\ currentCrop' = Null
  /\ historyDetail' = NullItem
  /\ error' = NullError

\* a user event that only navigates: no handleAnalyze, no promise resolved
NavigateBy(A, e) ==
  /\ UNCHANGED <<history, cache, language, apiKey, analysis, obsVars>>
  /\ A
  /\ HomeOnNavigate(screen')
  /\ ChatOnNavigate(screen, screen')
  /\ SpeechOnNavigate(screen, screen', TRUE)
  /\ ev' = e

Navigate(A) == NavigateBy(A, NoEvent)

\* Header: the history and about buttons are rendered when isHome
OnHistoryClick ==
  /\ screen = HOME
  /\ Navigate(/\ screen' = HISTORY
              /\ UNCHANGED <<currentResult, currentImage, currentCrop, historyDetail, error>>)

OnAboutClick ==
  /\ screen = HOME
  /\ Navigate(/\ screen' = ABOUT
              /\ UNCHANGED <<currentResult, currentImage, currentCrop, historyDetail, error>>)

\* onBack of AboutScreen and of HistoryScreen
BackToHome ==
  /\ screen \in {ABOUT, HISTORY}
  /\ Navigate(ResetToHome)

\* onBack of the ResultsScreen rendered for RESULTS
ResultsBack ==
  /\ screen = RESULTS
  /\ NavigateBy(ResetToHome, [NoEvent EXCEPT !.by = "back_results"])

\* (variant: the back action of HistoryDetail is resetToHome)
DetailOnBackResets == ResetToHome

\* onBack={() => setScreen(AppScreen.HISTORY)}
DetailOnBack ==
  /\ screen' = HISTORY
  /\ UNCHANGED <<currentResult, currentImage, currentCrop, historyDetail, error>>

\* onBack of the ResultsScreen rendered for HISTORY_DETAIL
HistoryDetailBack ==
  /\ screen = HISTORY_DETAIL
  /\ NavigateBy(DetailOnBack, [NoEvent EXCEPT !.by = "back_detail"])

\* (variant: every button views the newest item)
ItemAtFirst(hist, i) == hist[1]

\* history.map((item) => ... onClick={() => onViewItem(item)})
ItemAt(hist, i) == hist[i]

\* handleViewHistoryItem; cacheRef.current[item.image] = {} adds no result
HandleViewHistoryItem(i) ==
  /\ screen = HISTORY
  /\ i \in 1..Len(history)
  /\ NavigateBy(/\ historyDetail' = ItemAt(history, i)
                /\ screen' = RenderedScreen(HISTORY_DETAIL, currentResult, currentImage,
                                            currentCrop, ItemAt(history, i))
                /\ UNCHANGED <<currentResult, currentImage, currentCrop, error>>,
                [NoEvent EXCEPT !.by = "view", !.item = i])

\* onChatClick of the ResultsScreen (src/unnamed/part_003). Without an API
\* key startAgriChat throws inside ChatScreen's effect and React unmounts the
\* application: the session ends there.
OnChatClick ==
  /\ Mounted(screen)
  /\ apiKey
  /\ Navigate(IF RenderedScreen(CHAT, currentResult, currentImage, currentCrop,
                                historyDetail) = CHAT
                THEN /\ screen' = CHAT
                     /\ UNCHANGED <<currentResult, currentImage, currentCrop,
                                    historyDetail, error>>
                ELSE ResetToHome)

\* onBack of the ChatScreen: setScreen(RESULTS), and the RESULTS case of
\* renderScreen
ChatBack ==
  /\ screen = CHAT
  /\ Navigate(IF RenderedScreen(RESULTS, currentResult, currentImage, currentCrop,
                                historyDetail) = RESULTS
                THEN /\ screen' = RESULTS
                     /\ UNCHANGED <<currentResult, currentImage, currentCrop,
                                    historyDetail, error>>
                ELSE ResetToHome)


\* ---------------------------------------------------------------- language
\* (variant: the comparison inverted)
LanguageChangedInverted(last, lang) == last = lang

\* lastLanguageRef.current !== language
LanguageChanged(last, lang) == last # lang

\* onChange of the Header's language select (rendered on every screen), and,
\* when a ResultsScreen is mounted, its language effect: stop the referenced
\* source, record the language, onAnalyzeRequest(crop, image, language)
SetLanguage(lang) ==
  /\ lang # language
  /\ language' = lang
  /\ UNCHANGED <<apiKey, history, cache, historyDetail, homeVars, obsVars>>
  /\ ChatOnLanguage
  /\ IF Mounted(screen) /\ LanguageChanged(lastLanguageRef, lang)
       THEN /\ HandleAnalyze(ShownCrop, ShownImage, lang, lang, history, "language")
            /\ actionError' = IF Mounted(screen') THEN actionError ELSE FALSE
            /\ isLoadingSpeech' = IF Mounted(screen') THEN isLoadingSpeech ELSE FALSE
            /\ isSpeaking' = IF Mounted(screen') /\ ~RefSet(audio) THEN isSpeaking ELSE FALSE
            /\ lastLanguageRef' = IF Mounted(screen') THEN lang ELSE Null
            /\ audio' = IF Mounted(screen')
                          THEN CancelRequests(StopAndClearRef(audio))
                          ELSE UnmountAudio(StopAndClearRef(audio))
       ELSE /\ ev' = NoEvent
            /\ UNCHANGED <<screen, currentResult, currentImage, currentCrop, error,
                           analysis, speechVars>>

\* ---------------------------------------------------------------- speech
\* disabled={isLoadingSpeech && !isSpeaking}
SpeechButtonEnabled == ~(isLoadingSpeech /\ ~isSpeaking)

\* handleToggleSpeech up to its first await
HandleToggleSpeech ==
  /\ Mounted(screen)
  /\ SpeechButtonEnabled
  /\ IF isSpeaking \/ isLoadingSpeech
       THEN /\ audio' = CancelRequests(StopAndClearRef(audio))
            /\ isSpeaking' = FALSE
            /\ isLoadingSpeech' = FALSE
            /\ UNCHANGED actionError
       ELSE /\ Len(audio) < MaxAudio
            /\ isLoadingSpeech' = TRUE
            /\ actionError' = FALSE
            /\ audio' = Canon(Append(audio, AudioObject("request", TRUE, FALSE, FALSE)))
            /\ UNCHANGED isSpeaking
  /\ ev' = [NoEvent EXCEPT
              !.tts = IF isSpeaking \/ isLoadingSpeech THEN "stopped" ELSE "requested"]
  /\ UNCHANGED <<appVars, language, apiKey, analysis, homeVars, lastLanguageRef, obsVars, chatVars>>

UnrefOne(x) == [x EXCEPT !.ref = FALSE]

\* the source generateTTS's audio is played from, once decoded and started:
\* audioSourceRef.current = source when the instance is still mounted
Started(x) == [x EXCEPT !.kind = "playing", !.ref = x.live, !.cancelled = FALSE]

\* (variant: the failure is swallowed)
ActionErrorAfterSilent(x, err) == err

\* catch (err) { setActionError(t('errorTTS')) }: a state update of the
\* instance that issued request x, lost when that instance is gone
ActionErrorAfter(x, err) == IF x.live THEN TRUE ELSE err

\* generateTTS settles for request i (it throws without an API key) and
\* handleToggleSpeech runs to its end
\* (decodeAudioData awaits nothing that lets an event in between)
TtsResolve(i, ok) ==
  /\ i \in 1..Len(audio)
  /\ audio[i].kind = "request"
  /\ ok => apiKey
  /\ IF ok
       THEN /\ audio' = IF audio[i].live
                          THEN Canon([[k \in 1..Len(audio) |-> UnrefOne(audio[k])] EXCEPT ![i] = Started(audio[i])])
                          ELSE Canon([audio EXCEPT ![i] = Started(audio[i])])
            /\ isSpeaking' = IF audio[i].live THEN TRUE ELSE isSpeaking
            /\ UNCHANGED actionError
            /\ ev' = [NoEvent EXCEPT
                        !.tts = IF audio[i].cancelled THEN "started_late" ELSE "started"]
       ELSE /\ audio' = RemoveAt(audio, i)
            /\ actionError' = ActionErrorAfter(audio[i], actionError)
            /\ isSpeaking' = IF audio[i].live THEN FALSE ELSE isSpeaking
            /\ ev' = [NoEvent EXCEPT !.tts = "failed"]
  /\ isLoadingSpeech' = IF audio[i].live THEN FALSE ELSE isLoadingSpeech
  /\ UNCHANGED <<appVars, language, apiKey, analysis, homeVars, lastLanguageRef, obsVars, chatVars>>

\* source.onended of source i: it played to its end, or it was stopped and
\* its ended event is delivered now
SourceEnded(i) ==
  /\ i \in 1..Len(audio)
  /\ audio[i].kind \in {"playing", "stopped"}
  /\ audio' = IF audio[i].live THEN Canon(RemoveAt([k \in 1..Len(audio) |-> UnrefOne(audio[k])], i))
              ELSE RemoveAt(audio, i)
  /\ isSpeaking' = IF audio[i].live THEN FALSE ELSE isSpeaking
  /\ ev' = NoEvent
  /\ UNCHANGED <<appVars, language, apiKey, analysis, homeVars, isLoadingSpeech,
                 actionError, lastLanguageRef, obsVars, chatVars>>

\* ---------------------------------------------------------------- chat
\* crop and diagnosis props of the ChatScreen
ChatCrop == IF currentCrop # Null THEN currentCrop ELSE historyDetail.crop
ChatDiagnosis == IF currentResult # NullResult THEN currentResult ELSE historyDetail.result

\* onChange of the input: the trimmed text becomes empty or not
SetInput(nonEmpty) ==
  /\ screen = CHAT
  /\ chatInput # nonEmpty
  /\ chatInput' = nonEmpty
  /\ ev' = NoEvent
  /\ UNCHANGED <<appVars, language, apiKey, analysis, homeVars, speechVars, obsVars,
                 chatLoading, messages, sends, chatFrom>>

\* (variant: isLoading is not looked at)
SendAllowedWhileLoading(input, loading) == input

\* !(!input.trim() || !chatInstanceRef.current || isLoading); the session
\* exists from the first effect on
SendAllowed(input, loading) == input /\ ~loading

\* handleSend up to its await (the send button, or Enter in the input)
HandleSend ==
  /\ screen = CHAT
  /\ IF SendAllowed(chatInput, chatLoading)
       THEN /\ Len(messages) + 2 <= MaxMessages
            /\ chatInput' = FALSE
            /\ messages' = Append(messages, Message("cur", "user"))
            /\ chatLoading' = TRUE
            /\ sends' = [sends EXCEPT !.cur = @ + 1]
            /\ ev' = [NoEvent EXCEPT !.by = "send", !.io = "chat"]
       ELSE /\ ev' = [NoEvent EXCEPT !.by = "send"]
            /\ UNCHANGED <<chatInput, messages, chatLoading, sends>>
  /\ UNCHANGED <<appVars, language, apiKey, analysis, homeVars, speechVars, obsVars,
                 chatFrom>>

\* (variant: the message of the caught error is shown)
ReplyMessageRaw(session, outcome) ==
  Message(session, CASE outcome = "text" -> "reply"
                     [] outcome = "empty" -> "fallback"
                     [] OTHER -> "raw")

\* the transcript entry for a reply: response.text, the fallback for an empty
\* text, the fixed error text when sendMessage rejects; `session` tells a
\* reply of the current session from one of a session since replaced
ReplyMessage(session, outcome) ==
  Message(session, CASE outcome = "text" -> "reply"
                     [] outcome = "empty" -> "fallback"
                     [] OTHER -> "error")

\* sendMessage settles and handleSend runs to its end
SendResolve(session, outcome) ==
  /\ screen = CHAT
  /\ sends[session] > 0
  /\ sends' = [sends EXCEPT ![session] = @ - 1]
  /\ messages' = Append(messages, ReplyMessage(session, outcome))
  /\ chatLoading' = FALSE
  /\ ev' = [NoEvent EXCEPT !.by = "reply", !.outcome = outcome]
  /\ UNCHANGED <<appVars, language, apiKey, analysis, homeVars, speechVars, obsVars,
                 chatInput, chatFrom>>

\* ---------------------------------------------------------------- confidenceScore
\* A JSON value: its kind ("number", or "missing", "null", "string",
\* "boolean") and, for a number, its value in thousandths.
Value(kind, milli) == [kind |-> kind, milli |-> milli]
Num(milli) == Value("number", milli)

\* The product x * 100 is a binary floating-point one: a score whose
\* hundredfold is a half in decimal is tried only when that product is exact
\* (x a multiple of 0.125), the others being rounded either way.
ExactProduct(m) == m % 10 # 5 \/ m % 125 = 0

ParsedScores ==
  {Value(k, 0) : k \in {"missing", "null", "string", "boolean"}}
    \cup {Num(m) : m \in {n \in -MaxMilli..MaxMilli : ExactProduct(n)}}
    \cup {Num(500 * h) : h \in -MaxHalf..MaxHalf}

\* the copies of services/geminiService.ts in the repository
Services == {"types", "part_004a", "part_004b", "part_004c", "geminiService"}

NoReply ==
  [service |-> "", parsed |-> Value("missing", 0), pc |-> "none",
   confidenceScore |-> Value("missing", 0)]

\* result.confidenceScore = 85
DefaultConfidence == 85

\* Math.round of num / den (den > 0): the nearest integer, a half going up
MathRound(num, den) == (2 * num + den) \div (2 * den)

\* "Normalize confidence score": typeof check, then the fraction rule
NormalizeFraction(v) ==
  IF v.kind # "number" THEN Num(DefaultConfidence * 1000)
  ELSE IF v.milli <= 1000 THEN Num(MathRound(v.milli * 100, 1000) * 1000)
  ELSE v

\* "Safety check for confidenceScore": the typeof check alone
NormalizeDefault(v) ==
  IF v.kind # "number" THEN Num(DefaultConfidence * 1000) ELSE v

\* the copies that have the fraction rule
HasFractionRule(service) == service \in {"types", "part_004a"}

\* the confidenceScore of the result analyzeCropImage returns
ConfidenceScore(service, v) ==
  CASE HasFractionRule(service) -> NormalizeFraction(v)
    [] service \in {"part_004b", "part_004c"} -> NormalizeDefault(v)
    [] OTHER -> v

\* JSON.parse is done: the rest of analyzeCropImage up to `return result`
ReturnResult ==
  /\ reply.pc = "parsed"
  /\ reply' = [reply EXCEPT !.pc = "returned",
                            !.confidenceScore = ConfidenceScore(reply.service, reply.parsed)]
  /\ UNCHANGED <<appVars, language, apiKey, analysis, homeVars, speechVars,
                 chatVars, modelCalls, okCalls, ev, decoding>>

\* ---------------------------------------------------------------- analyzeCropImage
\* Characters of a model text: the braces, an ordinary character, the line
\* feed (a control character and white space) and U+007F (a control character
\* only).
Chars == {"{", "}", "a", "nl", "del"}
IsControl(c) == c \in {"nl", "del"}
IsSpace(c) == c = "nl"

Texts == UNION {[1..n -> Chars] : n \in 0..MaxText}

\* a groundingChunk: chunk.maps or chunk.web (or neither), its title ("" when
\* it has none) and uri
Chunks == [kind : {"maps", "web", "other"}, title : {"", "t"}, uri : {"u1", "u2"}]
ChunkLists == UNION {[1..n -> Chunks] : n \in 0..MaxChunks}

\* candidate.groundingMetadata?.groundingChunks: undefined, or a list
NoChunks == [present |-> FALSE, list |-> <<>>]
SomeChunks(list) == [present |-> TRUE, list |-> list]

\* what generateContent does: it throws, or gives a response without a
\* candidate, one blocked for safety, or one with a text
Response(kind, text, chunks) == [kind |-> kind, text |-> text, chunks |-> chunks]

ModelResponses ==
  {Response(k, <<>>, NoChunks) : k \in {"transport", "nocandidate", "safety"}}
    \cup {Response("text", t, NoChunks) : t \in Texts}
    \cup {Response("text", <<"{", "}">>, SomeChunks(l)) : l \in ChunkLists}

\* String.prototype.indexOf / lastIndexOf, positions from 1, 0 for -1
IndexOf(text, c) ==
  IF \E i \in 1..Len(text) : text[i] = c
    THEN CHOOSE i \in 1..Len(text) : text[i] = c /\ \A j \in 1..(i - 1) : text[j] # c
    ELSE 0

\* (variant: the first closing brace)
LastIndexOfFirst(text, c) == IndexOf(text, c)

LastIndexOf(text, c) ==
  IF \E i \in 1..Len(text) : text[i] = c
    THEN CHOOSE i \in 1..Len(text) : text[i] = c /\ \A j \in (i + 1)..Len(text) : text[j] # c
    ELSE 0

\* String.prototype.trim
Trim(text) ==
  LET kept == {i \in 1..Len(text) : ~IsSpace(text[i])}
  IN IF kept = {} THEN <<>>
     ELSE SubSeq(text, CHOOSE i \in kept : \A j \in kept : i <= j,
                       CHOOSE i \in kept : \A j \in kept : i >= j)

\* replace(/[\u0000-\u001F\u007F-\u009F]/g, "")
StripControl(text) ==
  LET Kept(c) == ~IsControl(c) IN SelectSeq(text, Kept)

\* JSON.parse succeeds: of the texts over Chars only {} is JSON (with white
\* space around and inside it)
JsonParses(text) ==
  LET Kept(c) == ~IsSpace(c) IN SelectSeq(text, Kept) = <<"{", "}">>

\* the copies that locate the JSON block with indexOf / lastIndexOf; the
\* others use textResponse.match(/\{[\s\S]*\}/)
UsesBraceSearch(service) == service = "geminiService"

\* the candidate JSON and what is handed to JSON.parse, or what is thrown
NoJson(thrown) == [thrown |-> thrown, candidate |-> <<>>, cleaned |-> <<>>]

\* (variant: a text without a JSON block stands for the empty object)
LocateJsonLenient(service, text) ==
  [thrown |-> "", candidate |-> <<"{", "}">>, cleaned |-> <<"{", "}">>]

LocateJson(service, text) ==
  LET firstBrace == IndexOf(text, "{")
      lastBrace == LastIndexOf(text, "}")
  IN IF UsesBraceSearch(service) /\ Trim(text) = <<>>
       THEN NoJson("ANALYSIS_FAILED")
     ELSE IF firstBrace = 0 \/ lastBrace = 0 \/ lastBrace < firstBrace
       THEN NoJson(IF UsesBraceSearch(service) THEN "ANALYSIS_FAILED"
                                               ELSE "INVALID_RESPONSE_FORMAT")
     ELSE [thrown |-> "",
           candidate |-> SubSeq(text, firstBrace, lastBrace),
           cleaned |-> StripControl(SubSeq(text, firstBrace, lastBrace))]

\* the try block: what it throws ("" when it returns), with the JSON block
TryBlock(service, response) ==
  CASE response.kind = "transport" -> NoJson("fetch failed")
    [] response.kind = "nocandidate" -> NoJson("ANALYSIS_FAILED")
    [] response.kind = "safety" /\ UsesBraceSearch(service) -> NoJson("ANALYSIS_FAILED")
    [] OTHER ->
         LET json == LocateJson(service, response.text)
         IN IF json.thrown # "" THEN json
            ELSE IF ~JsonParses(json.cleaned)
              THEN [json EXCEPT !.thrown = IF UsesBraceSearch(service)
                                             THEN "ANALYSIS_FAILED"
                                             ELSE "Unexpected token"]
            ELSE json

\* (variant: the caught error is thrown again as it is)
RethrownRaw(thrown) == thrown

\* the outer catch: the message of the Error that rejects the promise
Rethrown(thrown) ==
  IF thrown = "API_KEY_NOT_CONFIGURED" THEN "API_KEY_NOT_CONFIGURED" ELSE "ANALYSIS_FAILED"

\* a grounding link
Link(title, uri) == [title |-> title, uri |-> uri]

\* the chunk kinds a copy lifts, and its generic label for each
LiftedKinds(service) ==
  CASE service = "geminiService" -> {"maps"}
    [] service = "part_004a" -> {"web"}
    [] OTHER -> {"maps", "web"}

GenericLabel(service, kind) ==
  CASE service = "geminiService" -> "Regional Insight"
    [] service = "part_004a" -> "Search Result"
    [] kind = "maps" -> "Map View"
    [] OTHER -> "Source"

\* groundingChunks mapped to links, the chunks of other kinds dropped
LinksOf(service, chunks) ==
  LET Lifted(ch) == ch.kind \in LiftedKinds(service)
      kept == SelectSeq(chunks.list, Lifted)
  IN [k \in 1..Len(kept) |->
        Link(IF kept[k].title # "" THEN kept[k].title
                                   ELSE GenericLabel(service, kept[k].kind),
             kept[k].uri)]

\* result.groundingLinks of the returned result: geminiService.ts assigns it
\* only when it found links (the parsed object {} has none of its own)
GroundingLinks(service, chunks) ==
  IF service = "geminiService" /\ LinksOf(service, chunks) = <<>>
    THEN [present |-> FALSE, list |-> <<>>]
    ELSE [present |-> TRUE, list |-> LinksOf(service, chunks)]

NotSettled ==
  [called |-> FALSE, returned |-> FALSE, message |-> "", thrown |-> "",
   candidate |-> <<>>, cleaned |-> <<>>,
   groundingLinks |-> [present |-> FALSE, list |-> <<>>]]

\* analyzeCropImage(…) settles
Settle(service, key, response) ==
  IF ~key
    THEN [NotSettled EXCEPT !.thrown = "API_KEY_NOT_CONFIGURED",
                            !.message = "API_KEY_NOT_CONFIGURED"]
    ELSE LET try == TryBlock(service, response)
         IN [called |-> TRUE,
             returned |-> try.thrown = "",
             thrown |-> try.thrown,
             message |-> IF try.thrown = "" THEN "" ELSE Rethrown(try.thrown),
             candidate |-> try.candidate,
             cleaned |-> try.cleaned,
             groundingLinks |-> IF try.thrown = ""
                                  THEN GroundingLinks(service, response.chunks)
                                  ELSE NotSettled.groundingLinks]

AnalyzeCropImage ==
  /\ reply.pc = "called"
  /\ reply' = [reply EXCEPT !.pc = "settled",
                            !.settled = Settle(reply.service, apiKey, reply.response)]
  /\ UNCHANGED <<appVars, language, apiKey, analysis, homeVars, speechVars,
                 chatVars, modelCalls, okCalls, ev, decoding>>

\* ---------------------------------------------------------------- audio decoding
\* byte values and 16-bit samples tried
ByteValues == {0, 1, 64, 127, 128, 255}
SampleValues == {-32768, -16384, -1, 0, 1, 255, 16384, 32767}

ByteSeqs == UNION {[1..n -> ByteValues] : n \in 0..MaxBytes}
SampleSeqs == UNION {[1..n -> SampleValues] : n \in 0..MaxSamples}

\* a sample as its two bytes, low byte first
LowByte(sample) == sample % 256
HighByte(sample) == ((sample + 65536) % 65536) \div 256

EncodePcm16(samples) ==
  [i \in 1..(2 * Len(samples)) |->
     IF i % 2 = 1 THEN LowByte(samples[(i + 1) \div 2])
                  ELSE HighByte(samples[i \div 2])]

\* base64: a text is a sequence of sextets 0..63 and of the padding sign
Pad == 64

\* btoa: three bytes become four sextets, the last group is padded
Btoa(bytes) ==
  LET n == Len(bytes)
      groups == (n + 2) \div 3
      B(i) == IF i <= n THEN bytes[i] ELSE 0
  IN [j \in 1..(4 * groups) |->
        LET g == (j - 1) \div 4
            b1 == B(3 * g + 1)
            b2 == B(3 * g + 2)
            b3 == B(3 * g + 3)
        IN CASE (j - 1) % 4 = 0 -> b1 \div 4
             [] (j - 1) % 4 = 1 -> (b1 % 4) * 16 + b2 \div 16
             [] (j - 1) % 4 = 2 -> IF 3 * g + 2 > n THEN Pad
                                   ELSE (b2 % 16) * 4 + b3 \div 64
             [] OTHER -> IF 3 * g + 3 > n THEN Pad ELSE b3 % 64]

\* atob: four sextets become three bytes, less one per padding sign
Atob(text) ==
  LET pads == Cardinality({j \in 1..Len(text) : text[j] = Pad})
      n == 3 * (Len(text) \div 4) - pads
  IN [i \in 1..n |->
        LET g == (i - 1) \div 3
            c1 == text[4 * g + 1]
            c2 == text[4 * g + 2]
            c3 == text[4 * g + 3]
            c4 == text[4 * g + 4]
        IN CASE (i - 1) % 3 = 0 -> c1 * 4 + c2 \div 16
             [] (i - 1) % 3 = 1 -> (c2 % 16) * 16 + c3 \div 4
             [] OTHER -> (c3 % 4) * 64 + c4]

\* atob, then charCodeAt of every character into a Uint8Array
DecodeBase64Bytes(base64) == Atob(base64)

\* new Int16Array(buffer): byte pairs, low byte first, as signed 16-bit
ToInt16(lo, hi) ==
  IF lo + 256 * hi >= 32768 THEN lo + 256 * hi - 65536 ELSE lo + 256 * hi

Int16Array(bytes) ==
  [k \in 1..(Len(bytes) \div 2) |-> ToInt16(bytes[2 * k - 1], bytes[2 * k])]

\* a channel value: the quotient num / den
Float(num, den) == [num |-> num, den |-> den]

\* ctx.createBuffer(1, frameCount, 24000) throws NotSupportedError for a
\* length of zero frames
CreateBufferThrows(frameCount) == frameCount = 0

\* decodeAudioData with one channel: the channel data, or the rejection
DecodeAudio(bytes) ==
  LET bufferToUse == IF Len(bytes) % 2 # 0 THEN SubSeq(bytes, 1, Len(bytes) - 1)
                                           ELSE bytes
      dataInt16 == Int16Array(bufferToUse)
      frameCount == Len(dataInt16)
  IN IF CreateBufferThrows(frameCount)
       THEN [failed |-> TRUE, channelData |-> <<>>]
       ELSE [failed |-> FALSE,
             channelData |-> [i \in 1..frameCount |-> Float(dataInt16[i], 32768)]]

NotDecoding ==
  [pcm |-> <<>>, encoded |-> FALSE, payload |-> <<>>, base64 |-> <<>>,
   bytes |-> <<>>, pc |-> "none", failed |-> FALSE, channelData |-> <<>>]

\* the bytes of a payload (and the samples they encode, if they do) as base64
Payload(pcm, encoded, bytes) ==
  [NotDecoding EXCEPT !.pcm = pcm, !.encoded = encoded, !.payload = bytes,
                      !.base64 = Btoa(bytes), !.pc = "base64"]

DecodeBase64 ==
  /\ decoding.pc = "base64"
  /\ decoding' = [decoding EXCEPT !.pc = "bytes",
                                  !.bytes = DecodeBase64Bytes(decoding.base64)]
  /\ UNCHANGED <<appVars, language, apiKey, analysis, homeVars, speechVars,
                 chatVars, modelCalls, okCalls, ev, reply>>

DecodeAudioData ==
  /\ decoding.pc = "bytes"
  /\ decoding' = [decoding EXCEPT !.pc = "decoded",
                                  !.failed = DecodeAudio(decoding.bytes).failed,
                                  !.channelData = DecodeAudio(decoding.bytes).channelData]
  /\ UNCHANGED <<appVars, language, apiKey, analysis, homeVars, speechVars,
                 chatVars, modelCalls, okCalls, ev, reply>>

\* ---------------------------------------------------------------- behaviours
\* useLocalStorage('scanHistory', []): what an earlier session may have left
StoredHistories ==
  {<<>>} \cup {<<HistoryItem(1, 1, Result(1, 1, l, FALSE), FALSE)>> : l \in Langs}

InitApp ==
  /\ screen = HOME
  /\ history \in StoredHistories
  /\ currentResult = NullResult
  /\ currentImage = Null
  /\ currentCrop = Null
  /\ historyDetail = NullItem
  /\ error = NullError
  /\ cache = [i \in Images |-> [l \in Langs |-> NullResult]]
  /\ language = EN
  /\ apiKey \in BOOLEAN
  /\ analysis = NoAnalysis
  /\ selectedCrop = Null
  /\ selectedImage = Null
  /\ homeError = FALSE
  /\ isSpeaking = FALSE
  /\ isLoadingSpeech = FALSE
  /\ actionError = FALSE
  /\ lastLanguageRef = Null
  /\ audio = <<>>
  /\ chatInput = FALSE
  /\ chatLoading = FALSE
  /\ messages = <<>>
  /\ sends = NoSends
  /\ chatFrom = ""
  /\ modelCalls = [i \in Images |-> [l \in Langs |-> 0]]
  /\ okCalls = [i \in Images |-> [l \in Langs |-> 0]]
  /\ ev = NoEvent

Init ==
  /\ InitApp
  /\ reply = NoReply
  /\ decoding = NotDecoding

\* a base64 payload is about to be decoded: the encoding of any bytes, or of
\* the little-endian byte pairs of a sequence of samples
InitDecode ==
  /\ InitApp
  /\ reply = NoReply
  /\ decoding \in
       {Payload(<<>>, FALSE, b) : b \in ByteSeqs}
         \cup {Payload(p, TRUE, EncodePcm16(p)) : p \in SampleSeqs}

\* analyzeCropImage has parsed a reply and is about to return its result
InitConfidence ==
  /\ InitApp
  /\ reply \in [service : Services, parsed : ParsedScores, pc : {"parsed"},
                 confidenceScore : {Value("missing", 0)}]
  /\ decoding = NotDecoding

\* analyzeCropImage is called; the response is what generateContent gives if
\* it is reached
InitParse ==
  /\ InitApp
  /\ reply \in [service : Services, response : ModelResponses, pc : {"called"},
                 settled : {NotSettled}]
  /\ decoding = NotDecoding

NextApp ==
  \/ \E c \in Crops : SelectCrop(c)
  \/ DismissSelection
  \/ \E i \in Images : HandleImageSelect(i)
  \/ ScanButtonClick
  \/ DismissError
  \/ OnHistoryClick
  \/ OnAboutClick
  \/ BackToHome
  \/ ResultsBack
  \/ HistoryDetailBack
  \/ \E i \in 1..Len(history) : HandleViewHistoryItem(i)
  \/ OnChatClick
  \/ ChatBack
  \/ \E l \in Langs : SetLanguage(l)
  \/ \E pos \in BOOLEAN : GeoResolve(pos)
  \/ \E r \in Responses : ModelResolve(r)

NextSpeech ==
  \/ HandleToggleSpeech
  \/ \E i \in 1..Len(audio), ok \in BOOLEAN : TtsResolve(i, ok)
  \/ \E i \in 1..Len(audio) : SourceEnded(i)

\* handleAnalyzeClick called whatever the selection is, the scan button's
\* rendering and its disabled attribute set aside
NextSubmit ==
  \/ HandleAnalyzeClick

SpecSubmit == Init /\ [][NextApp \/ NextSubmit]_vars

\* getPosition settles (its callbacks, or the 5 s timeout) and the model call
\* settles: a pending await of handleAnalyze is eventually resumed.
SpecLive ==
  /\ Init
  /\ [][NextApp]_vars
  /\ WF_vars(\E pos \in BOOLEAN : GeoResolve(pos))
  /\ WF_vars(\E r \in Responses : ModelResolve(r))

NextConfidence ==
  \/ ReturnResult

NextParse ==
  \/ AnalyzeCropImage

NextDecode ==
  \/ DecodeBase64
  \/ DecodeAudioData

\* decodeBase64 and decodeAudioData on every payload
SpecDecode == InitDecode /\ [][NextDecode]_vars

\* analyzeCropImage from its first line to its return or rejection, on every
\* response
SpecParse == InitParse /\ [][NextParse]_vars

\* analyzeCropImage from JSON.parse to its return, on every parsed score
SpecConfidence == InitConfidence /\ [][NextConfidence]_vars

\* The app without the speech controls: navigation, analysis, cache, history.
\* The speech actions change none of the variables of AppContent.
Spec == Init /\ [][NextApp]_vars

NextChat ==
  \/ \E b \in BOOLEAN : SetInput(b)
  \/ HandleSend
  \/ \E session \in {"cur", "old"}, outcome \in {"text", "empty", "fail"} :
       SendResolve(session, outcome)

\* The app with the controls of the ChatScreen
SpecChat == Init /\ [][NextApp \/ NextChat]_vars

\* The app with the speech controls of the ResultsScreen
SpecSpeech == Init /\ [][NextApp \/ NextSpeech]_vars


\* ======================================================================
\* Properties
\* ======================================================================
Cached(image, lang) == cache[image][lang] # NullResult

InFlightFor(image, lang) ==
  analysis.pc # "idle" /\ analysis.image = image /\ analysis.targetLanguage = lang

\* ---------------------------------------------------------------- C1
\* C1 as stated: over a session the external model is called at most once for
\* each (image, language) pair.
C1_AtMostOneModelCallPerPair ==
  \A i \in Images, l \in Langs : modelCalls[i][l] <= 1

\* C1 (amended): for each (image, language) pair at most one model call comes
\* back with a result that is kept: a pair that is cached is never requested
\* again (a handleAnalyze call for it issues nothing and no request for it is
\* in flight); a pair whose request failed or was a crop mismatch is not
\* cached and is requested again when it is submitted again.
C1_AtMostOneSuccessfulCallPerPair ==
  \A i \in Images, l \in Langs :
    /\ okCalls[i][l] <= 1
    /\ Cached(i, l) =>
         /\ ~InFlightFor(i, l)
         /\ (ev.call.image = i /\ ev.call.language = l) => ev.io = "none"

\* a pair that is cached was submitted a second time
C1_Witness ==
  /\ ev.call # NoCall
  /\ Cached(ev.call.image, ev.call.language)
  /\ modelCalls[ev.call.image][ev.call.language] = 1
  /\ ev.by = "home"

\* ---------------------------------------------------------------- C2
\* C2: a handleAnalyze call whose (image, targetLanguage) is cached sets the
\* current result, image and crop and moves the screen to Results in the same
\* step: it does not enter Analyzing and issues no geolocation or model
\* request.
C2_CacheHitShortCircuits ==
  (ev.call # NoCall /\ Cached(ev.call.image, ev.call.language)) =>
    /\ screen = RESULTS
    /\ currentResult = cache[ev.call.image][ev.call.language]
    /\ currentImage = ev.call.image
    /\ currentCrop = ev.call.crop
    /\ analysis = NoAnalysis
    /\ ev.io = "none"

C2_Witness ==
  /\ ev.call # NoCall
  /\ Cached(ev.call.image, ev.call.language)
  /\ screen = RESULTS

\* ---------------------------------------------------------------- C3
\* C3: a result produced for one crop is never shown on Results under a
\* different crop (a cached image submitted with another crop is requested
\* afresh).
C3_ResultShownUnderItsCrop ==
  screen = RESULTS => currentResult.crop = currentCrop

\* ---------------------------------------------------------------- C4
\* C4: when the model result has cropMismatch true the screen moves from
\* Analyzing to Home with the crop-mismatch message, history and cache are
\* unchanged, and no cached or recorded result ever has cropMismatch true.
C4_MismatchIsAHardGate ==
  /\ [][(analysis.pc = "model" /\ ev'.outcome = "mismatch") =>
          /\ screen = ANALYZING
          /\ screen' = HOME
          /\ error' = T(analysis.t, "errorCropMismatch")
          /\ history' = history
          /\ cache' = cache]_vars
  /\ [](/\ \A i \in Images, l \in Langs : ~cache[i][l].cropMismatch
        /\ \A k \in 1..Len(history) : ~history[k].result.cropMismatch)

C4_Witness ==
  /\ ev.outcome = "mismatch"
  /\ screen = HOME
  /\ history # <<>>


\* ---------------------------------------------------------------- C5
\* a change of language while a ResultsScreen shows calls handleAnalyze for
\* the shown (crop, image) under the new language; a cached language leaves
\* nothing in flight, another one starts an analysis
C5_Reissue ==
  [][(Mounted(screen) /\ language' # language) =>
       /\ ev'.call = [crop |-> ShownCrop, image |-> ShownImage, language |-> language']
       /\ IF Cached(ShownImage, language')
            THEN analysis' = NoAnalysis /\ modelCalls' = modelCalls /\ ev'.io = "none"
            ELSE /\ analysis'.pc = "geo"
                 /\ analysis'.by = "language"
                 /\ analysis'.image = ShownImage
                 /\ analysis'.crop = ShownCrop
                 /\ analysis'.targetLanguage = language'
                 /\ modelCalls' = modelCalls]_vars

\* model requests are issued one at a time, by an analysis in flight at the
\* moment its geolocation read has settled, for its own pair
C5_RequestsOnlyFromAnalysis ==
  [][modelCalls' # modelCalls =>
       /\ analysis.pc = "geo"
       /\ analysis'.pc = "model"
       /\ modelCalls' = [modelCalls EXCEPT
                           ![analysis.image][analysis.targetLanguage] = @ + 1]]_vars

\* C5 as stated: while Results or HistoryDetail shows, each change of the
\* language re-issues handleAnalyze for the same (image, crop); that causes
\* exactly one model request when the language is not cached for the image and
\* none when it is.
C5_OneRequestPerUncachedLanguage ==
  /\ C5_Reissue
  /\ C5_RequestsOnlyFromAnalysis
  /\ [][(analysis.by = "language" /\ analysis.pc = "geo" /\ analysis' # analysis) =>
          modelCalls'[analysis.image][analysis.targetLanguage]
            = modelCalls[analysis.image][analysis.targetLanguage] + 1]_vars

\* C5 (amended): ... exactly one model request when the language is not
\* cached for the image and an API key is configured; without an API key the
\* re-issued analysis ends at Home with the API-key message and no model
\* request; none when the language is cached.
C5_OneRequestPerUncachedLanguageWithKey ==
  /\ C5_Reissue
  /\ C5_RequestsOnlyFromAnalysis
  /\ [][(analysis.by = "language" /\ analysis.pc = "geo" /\ analysis' # analysis) =>
          IF apiKey
            THEN modelCalls'[analysis.image][analysis.targetLanguage]
                   = modelCalls[analysis.image][analysis.targetLanguage] + 1
            ELSE /\ modelCalls' = modelCalls
                 /\ analysis' = NoAnalysis
                 /\ screen' = HOME
                 /\ error'.key = "errorApiKey"]_vars

\* the language was changed to an uncached one (one request), then back to
\* the cached one (no request)
C5_Witness ==
  /\ ev.by = "language"
  /\ ev.io = "none"
  /\ ev.call # NoCall
  /\ Cached(ev.call.image, ev.call.language)
  /\ \A l \in Langs : modelCalls[ev.call.image][l] = 1

\* ---------------------------------------------------------------- C6
\* C6: history never holds two entries with the same image.
C6_HistoryImagesDistinct ==
  \A j, k \in 1..Len(history) : history[j].image = history[k].image => j = k

\* an image that is in history was analysed again under another language
C6_Witness ==
  /\ ev.outcome = "ok"
  /\ \E i \in Images :
       /\ HasImage(history, i)
       /\ currentImage = i
       /\ \A l \in Langs : Cached(i, l)

\* ---------------------------------------------------------------- C7
\* C7: when an analysis on a cache miss succeeds without mismatch the result
\* is stored in cache[image][targetLanguage] and becomes the current result,
\* the screen moves from Analyzing to Results, and a history entry is
\* prepended if and only if no history entry has the same image.
C7_SuccessCachesShowsRecords ==
  [][(analysis.pc = "model" /\ ev'.outcome = "ok") =>
       LET i == analysis.image
           l == analysis.targetLanguage
           r == Result(i, analysis.crop, l, FALSE)
       IN /\ ~Cached(i, l)
          /\ cache' = [cache EXCEPT ![i][l] = r]
          /\ currentResult' = r
          /\ screen = ANALYZING
          /\ screen' = RESULTS
          /\ history' = IF \E k \in 1..Len(history) : history[k].image = i
                          THEN history
                          ELSE <<HistoryItem(analysis.crop, i, r, analysis.location)>>
                                 \o history]_vars

\* a new image was recorded in front of an older entry
C7_Witness ==
  /\ ev.outcome = "ok"
  /\ Len(history) = 2
  /\ history[1].image = currentImage
  /\ history[1].result = currentResult

\* ---------------------------------------------------------------- C8
\* the failure kinds handleAnalyze tells apart: the message of the Error that
\* analyzeCropImage throws, or the mismatch flag of its result
FailureKind(outcome) ==
  CASE outcome = "apikey" -> "configuration"
    [] outcome = "mismatch" -> "mismatch"
    [] outcome \in {"transport", "nocandidate", "safety", "empty", "nojson", "badjson"}
         -> "analysis"
    [] OTHER -> "none"

MessageOfKind(kind) ==
  CASE kind = "configuration" -> "errorApiKey"
    [] kind = "analysis" -> "errorAnalysis"
    [] kind = "mismatch" -> "errorCropMismatch"
    [] OTHER -> ""

\* C8: every failing analysis ends Analyzing at Home with exactly one error
\* message, the one of its failure kind (configuration error, analysis
\* failure, crop mismatch), and the kinds have different messages.
C8_FailureShowsMessageOfKind ==
  FailureKind(ev.outcome) # "none" =>
    /\ screen = HOME
    /\ analysis = NoAnalysis
    /\ error.key = MessageOfKind(FailureKind(ev.outcome))
    /\ \A k \in {"configuration", "analysis", "mismatch"} :
         k # FailureKind(ev.outcome) => MessageOfKind(k) # error.key

C8_Witness ==
  /\ ev.outcome = "nojson"
  /\ screen = HOME
  /\ error.key = "errorAnalysis"

\* ---------------------------------------------------------------- C9
\* C9: a TTS synthesis that resolves after its request was cancelled or
\* superseded never starts playback.
C9_LateSynthesisDiscarded == ev.tts # "started_late"

\* ---------------------------------------------------------------- C10
\* C10: at any time at most one audio source is playing.
C10_AtMostOnePlaying == Cardinality(Playing(audio)) <= 1

\* ---------------------------------------------------------------- C11
\* sources and requests of the mounted ResultsScreen instance
LivePlaying(a) == {i \in 1..Len(a) : a[i].kind = "playing" /\ a[i].live}
LiveRequests(a) == {i \in 1..Len(a) : a[i].kind = "request" /\ a[i].live}
RefPlaying(a) == {i \in 1..Len(a) : a[i].kind = "playing" /\ a[i].live /\ a[i].ref}
OrphanPlaying(a) == {i \in 1..Len(a) : a[i].kind = "playing" /\ ~a[i].live}

\* C11: a language change while a results screen shows cancels the speech in
\* progress, playing or still loading: right after it the controller is idle
\* (not speaking, not loading) and no source of that screen is playing.
C11_LanguageChangeCancelsSpeech ==
  [][(Mounted(screen) /\ language' # language) =>
       /\ ~isSpeaking'
       /\ ~isLoadingSpeech'
       /\ Cardinality(Playing(audio')) <= Cardinality(OrphanPlaying(audio))]_vars

\* ---------------------------------------------------------------- C12
\* C12: no audio source started by a results screen is playing once that
\* screen is unmounted, and none is playing right after the displayed result
\* or image of the mounted screen changed.
C12_StoppedOnUnmountAndResultChange ==
  /\ [](~Mounted(screen) => Playing(audio) = {})
  /\ [][(Mounted(screen) /\ Mounted(screen')
          /\ (ShownResult' # ShownResult \/ ShownImage' # ShownImage)) =>
          LivePlaying(audio') = {}]_vars

\* ---------------------------------------------------------------- C13
\* C13: handleToggleSpeech while loading or playing stops the current source
\* and leaves the controller idle without a new TTS request; while idle it
\* issues exactly one TTS request and enters loading.
C13_ToggleStopsOrRequests ==
  [][ev'.tts \in {"stopped", "requested"} =>
       IF isSpeaking \/ isLoadingSpeech
         THEN /\ ev'.tts = "stopped"
              /\ ~isSpeaking' /\ ~isLoadingSpeech'
              /\ ~RefSet(audio')
              /\ Cardinality(LivePlaying(audio'))
                   = Cardinality(LivePlaying(audio)) - Cardinality(RefPlaying(audio))
              /\ Cardinality(LiveRequests(audio')) = Cardinality(LiveRequests(audio))
              /\ Len(audio') = Len(audio)
         ELSE /\ ev'.tts = "requested"
              /\ isLoadingSpeech' /\ ~isSpeaking'
              /\ Cardinality(LiveRequests(audio')) = Cardinality(LiveRequests(audio)) + 1
              /\ Len(audio') = Len(audio) + 1]_vars

\* a playing source was stopped by the toggle
C13_Witness ==
  /\ ev.tts = "stopped"
  /\ LivePlaying(audio) = {}
  /\ \E i \in 1..Len(audio) : audio[i].live /\ audio[i].kind = "stopped"

\* ---------------------------------------------------------------- C14
\* C14: when the synthesis or the decoding of a request of the mounted screen
\* fails, the TTS error is set and the controller is idle; screen, current
\* result, cache and history (all of AppContent's state) are unchanged.
C14_TtsFailureIsIsolated ==
  [][ev'.tts = "failed" =>
       /\ UNCHANGED <<appVars, language, analysis, homeVars>>
       /\ (Cardinality(LiveRequests(audio')) < Cardinality(LiveRequests(audio)) =>
             actionError' /\ ~isSpeaking' /\ ~isLoadingSpeech')]_vars

C14_Witness ==
  /\ ev.tts = "failed"
  /\ actionError
  /\ Mounted(screen)
  /\ ~isSpeaking /\ ~isLoadingSpeech

\* ---------------------------------------------------------------- C15
\* C15: the cache is monotonic: an entry cache[image][language] that holds a
\* result is never removed or replaced by any later step.
C15_CacheMonotonic ==
  [][\A i \in Images, l \in Langs : Cached(i, l) => cache'[i][l] = cache[i][l]]_vars

\* a second entry was written while a first one was there
C15_Witness ==
  /\ ev.outcome = "ok"
  /\ Cardinality({p \in Images \X Langs : Cached(p[1], p[2])}) = 2

\* ---------------------------------------------------------------- C16
\* C16: at most one analysis is in flight: an analysis is pending exactly
\* while the screen is Analyzing, and no step calls handleAnalyze while one is
\* pending, so two model requests never overlap.
C16_OneAnalysisInFlight ==
  /\ [](analysis.pc # "idle" <=> screen = ANALYZING)
  /\ [][(ev'.call # NoCall \/ ev'.io = "geo") => analysis = NoAnalysis]_vars
  /\ [][ev'.io = "model" => analysis.pc = "geo" /\ analysis'.pc = "model"]_vars

\* the language was changed while the model request was pending
C16_Witness ==
  /\ screen = ANALYZING
  /\ analysis.pc = "model"
  /\ language # analysis.targetLanguage
  /\ ev.call = NoCall

\* ---------------------------------------------------------------- C17
\* C17: history is append-only and newest first: every step leaves it
\* unchanged or puts exactly one entry in front of the unchanged older ones.
C17_HistoryPrependOnly ==
  [][\/ history' = history
     \/ /\ Len(history') = Len(history) + 1
        /\ Tail(history') = history]_vars

\* an entry was put in front of a stored one
C17_Witness ==
  /\ ev.outcome = "ok"
  /\ Len(history) = 2
  /\ <<history[2]>> \in StoredHistories

\* ---------------------------------------------------------------- C18
\* C18: leaving Chat returns to the view Chat was opened from (Results, or
\* HistoryDetail), never to Home.
C18_ChatBackReturnsToOrigin ==
  [][(screen = CHAT /\ screen' # CHAT) => screen' = chatFrom]_vars

\* ---------------------------------------------------------------- C19
\* C19: while Chat shows, its crop and diagnosis are those of the Results or
\* HistoryDetail view it was opened from.
C19_ChatBoundToDisplayedPair ==
  screen = CHAT =>
    IF chatFrom = HISTORY_DETAIL
      THEN ChatCrop = historyDetail.crop /\ ChatDiagnosis = historyDetail.result
      ELSE ChatCrop = currentCrop /\ ChatDiagnosis = currentResult

\* ---------------------------------------------------------------- C20
\* C20: a chat session has at most one send outstanding: a send is
\* outstanding only while isLoading is set, and handleSend changes nothing
\* while isLoading is set.
C20_OneSendOutstanding ==
  /\ [](sends.cur <= 1 /\ (sends.cur + sends.old > 0 => chatLoading))
  /\ [][(ev'.by = "send" /\ chatLoading) =>
          UNCHANGED <<messages, sends, chatLoading, chatInput>>]_vars

\* Enter was pressed with text in the input while a reply was awaited
C20_Witness ==
  /\ ev.by = "send"
  /\ ev.io = "none"
  /\ chatInput
  /\ chatLoading
  /\ sends.cur = 1

\* ---------------------------------------------------------------- C21
\* C21: after the session was replaced (the language changed while Chat is
\* open) the transcript holds only entries of the new session: the welcome
\* message first, and never a reply to a send made on an old session.
C21_NoStaleReplyInTranscript ==
  screen = CHAT =>
    /\ messages # <<>>
    /\ messages[1] = Message("cur", "welcome")
    /\ \A k \in 1..Len(messages) : messages[k].session = "cur"

\* ---------------------------------------------------------------- C22
\* C22: a send that is started appends exactly one user message; its reply
\* appends exactly one model message (the model's text, the fixed fallback
\* for an empty text, the fixed error text for a failed call, never the raw
\* error) and isLoading is false afterwards; the reply to a send of the
\* current session comes right after its user message.
C22_SendAppendsUserThenModel ==
  /\ [][(ev'.by = "send" /\ ev'.io = "chat") =>
          /\ messages' = Append(messages, Message("cur", "user"))
          /\ chatLoading']_vars
  /\ [][ev'.by = "reply" =>
          /\ Len(messages') = Len(messages) + 1
          /\ SubSeq(messages', 1, Len(messages)) = messages
          /\ messages'[Len(messages')].text =
               (CASE ev'.outcome = "text" -> "reply"
                  [] ev'.outcome = "empty" -> "fallback"
                  [] OTHER -> "error")
          /\ (messages'[Len(messages')].session = "cur" =>
                messages[Len(messages)] = Message("cur", "user"))
          /\ ~chatLoading']_vars

\* a call that failed left the fixed error text after the user message
C22_Witness ==
  /\ ev.by = "reply"
  /\ ev.outcome = "fail"
  /\ Len(messages) = 3
  /\ messages[2].text = "user"
  /\ messages[3] = Message("cur", "error")
  /\ ~chatLoading

\* ---------------------------------------------------------------- C23
\* C23 (as stated): the back action on HistoryDetail moves to Home and
\* clears all transient state, exactly like the back action on Results.
C23_DetailBackResetsToHome ==
  [][ev'.by = "back_detail" =>
       /\ screen' = HOME
       /\ currentResult' = NullResult
       /\ currentImage' = Null
       /\ currentCrop' = Null
       /\ historyDetail' = NullItem
       /\ error' = NullError]_vars

\* C23 (amended): the back action on HistoryDetail moves to History and
\* changes none of current result, image, crop, history detail and error,
\* nor the persisted history and the session cache.
C23_DetailBackReturnsToHistory ==
  [][ev'.by = "back_detail" =>
       /\ screen' = HISTORY
       /\ UNCHANGED <<currentResult, currentImage, currentCrop, historyDetail,
                      error, history, cache>>]_vars

\* back from a history item while a current result is still held
C23_Witness ==
  /\ ev.by = "back_detail"
  /\ screen = HISTORY
  /\ historyDetail # NullItem
  /\ currentResult # NullResult

\* ---------------------------------------------------------------- C24
\* C24: the back action on Results moves to Home and clears current result,
\* image, crop, history detail and error; the persisted history and the
\* session cache stay unchanged.
C24_ResultsBackResetsToHome ==
  [][ev'.by = "back_results" =>
       /\ screen' = HOME
       /\ currentResult' = NullResult
       /\ currentImage' = Null
       /\ currentCrop' = Null
       /\ historyDetail' = NullItem
       /\ error' = NullError
       /\ UNCHANGED <<history, cache>>]_vars

\* back from a result that is cached and recorded in the history
C24_Witness ==
  /\ ev.by = "back_results"
  /\ screen = HOME
  /\ currentResult = NullResult
  /\ history # <<>>
  /\ \E i \in Images, l \in Langs : Cached(i, l)

\* ---------------------------------------------------------------- C27
\* C27: selecting a history item moves to HistoryDetail showing that item's
\* stored crop, image and result, issues no model or geolocation call, and
\* leaves the history unchanged.
C27_ViewShowsStoredItem ==
  [][ev'.by = "view" =>
       /\ screen' = HISTORY_DETAIL
       /\ historyDetail' = history[ev'.item]
       /\ ShownCrop' = history[ev'.item].crop
       /\ ShownImage' = history[ev'.item].image
       /\ ShownResult' = history[ev'.item].result
       /\ ev'.io = "none"
       /\ UNCHANGED <<history, analysis, modelCalls, okCalls, cache>>]_vars

\* an older item of a history of several different items is viewed
C27_Witness ==
  /\ ev.by = "view"
  /\ ev.item > 1
  /\ screen = HISTORY_DETAIL
  /\ historyDetail = history[ev.item]
  /\ historyDetail # history[1]

C26_ModelRequestAlwaysIssued ==
  /\ [][(analysis.pc = "geo" /\ analysis'.pc # "geo") =>
          (ev'.io = "model" /\ analysis'.pc = "model")]_vars
  /\ [][(analysis.pc = "model" /\ analysis'.pc # "model") =>
          (screen = ANALYZING /\ screen' \in {RESULTS, HOME})]_vars
  /\ (screen = ANALYZING ~> screen \in {RESULTS, HOME})

\* C26 (amended): Analyzing is never a dead end: whatever the geolocation
\* outcome, the analysis goes on; with an API key the model request is issued,
\* and once it resolves or rejects the screen leaves Analyzing for Results or
\* Home; without an API key no model request is issued and the screen leaves
\* Analyzing for Home at once.
C26_AnalyzingIsNeverADeadEnd ==
  /\ [][(analysis.pc = "geo" /\ analysis'.pc # "geo") =>
          IF apiKey
            THEN ev'.io = "model" /\ analysis'.pc = "model" /\ screen' = ANALYZING
            ELSE /\ ev'.io = "none"
                 /\ UNCHANGED modelCalls
                 /\ analysis'.pc = "idle"
                 /\ screen = ANALYZING
                 /\ screen' = HOME]_vars
  /\ [][(analysis.pc = "model" /\ analysis'.pc # "model") =>
          (screen = ANALYZING /\ screen' \in {RESULTS, HOME})]_vars
  /\ (screen = ANALYZING ~> screen \in {RESULTS, HOME})

\* a new scan reached Results although the geolocation read gave no position
C26_Witness ==
  /\ ev.outcome = "ok"
  /\ screen = RESULTS
  /\ history # <<>>
  /\ history[1].image = currentImage
  /\ history[1].result = currentResult
  /\ history[1].location = FALSE

\* ---------------------------------------------------------------- C28
\* C28: the confidenceScore of every result returned by analyzeCropImage is
\* an integer in 0..100: numeric inputs above 100 are clamped to 100 and
\* inputs below 0 are clamped to 0.
C28_ConfidenceIsIntegerPercent ==
  reply.pc = "returned" =>
    /\ reply.confidenceScore.kind = "number"
    /\ reply.confidenceScore.milli % 1000 = 0
    /\ reply.confidenceScore.milli \in 0..100000
    /\ (reply.parsed.kind = "number" /\ reply.parsed.milli > 100000 =>
          reply.confidenceScore = Num(100000))
    /\ (reply.parsed.kind = "number" /\ reply.parsed.milli < 0 =>
          reply.confidenceScore = Num(0))

\* ---------------------------------------------------------------- C29
\* C29: for every numeric confidenceScore x with 0 < x <= 1, the normalised
\* score is round(x*100): the integer r with r <= x*100 + 1/2 < r + 1.
C29_FractionBecomesPercent ==
  (/\ reply.pc = "returned"
   /\ reply.parsed.kind = "number"
   /\ reply.parsed.milli > 0
   /\ reply.parsed.milli <= 1000) =>
    /\ reply.confidenceScore.kind = "number"
    /\ reply.confidenceScore.milli % 1000 = 0
    /\ LET r == reply.confidenceScore.milli \div 1000
       IN /\ 2000 * r <= 200 * reply.parsed.milli + 1000
          /\ 200 * reply.parsed.milli + 1000 < 2000 * (r + 1)

\* ---------------------------------------------------------------- C30
\* C30: when the parsed object has no confidenceScore, or one that is not a
\* number, the confidenceScore of the returned result is 85.
C30_MissingConfidenceDefaults ==
  (reply.pc = "returned" /\ reply.parsed.kind # "number") =>
    reply.confidenceScore = Num(85000)

\* ---------------------------------------------------------------- C31
\* the model text has no '{' ... '}' pair: no '{', no '}', or the last '}'
\* before the first '{'
NoBracePair(text) ==
  ~ \E i, j \in 1..Len(text) : i < j /\ text[i] = "{" /\ text[j] = "}"

\* C31 (as stated): when the model text contains no '{' ... '}' pair,
\* analyzeCropImage fails with InvalidResponseFormat: it returns no result and
\* does not fail with any other error.
C31_NoBracesIsInvalidResponseFormat ==
  (/\ reply.pc = "settled"
   /\ reply.settled.called
   /\ reply.response.kind = "text"
   /\ NoBracePair(reply.response.text)) =>
    /\ ~reply.settled.returned
    /\ reply.settled.message = "INVALID_RESPONSE_FORMAT"

\* C31 (amended): when the model text contains no '{' ... '}' pair,
\* analyzeCropImage returns no result and rejects with ANALYSIS_FAILED, the
\* message of every analysis failure, and with no other error.
C31_NoBracesIsAnalysisFailed ==
  (/\ reply.pc = "settled"
   /\ reply.settled.called
   /\ reply.response.kind = "text"
   /\ NoBracePair(reply.response.text)) =>
    /\ ~reply.settled.returned
    /\ reply.settled.message = "ANALYSIS_FAILED"

\* a text whose only closing brace comes before its only opening brace
C31_Witness ==
  /\ reply.pc = "settled"
  /\ reply.response.text = <<"a", "}", "{", "a">>
  /\ ~reply.settled.returned
  /\ reply.settled.message = "ANALYSIS_FAILED"

\* ---------------------------------------------------------------- C32
\* C32: the parser takes as candidate JSON exactly the substring from the
\* first '{' to the last '}' of the model text, inclusive, ignoring what is
\* before and after it, and removes every control character from that
\* substring before parsing.
C32_CandidateIsFirstToLastBrace ==
  (/\ reply.pc = "settled"
   /\ reply.settled.called
   /\ reply.response.kind = "text"
   /\ ~NoBracePair(reply.response.text)) =>
    LET text == reply.response.text
    IN \E i, j \in 1..Len(text) :
         /\ text[i] = "{" /\ \A k \in 1..(i - 1) : text[k] # "{"
         /\ text[j] = "}" /\ \A k \in (j + 1)..Len(text) : text[k] # "}"
         /\ reply.settled.candidate = [k \in 1..(j - i + 1) |-> text[i + k - 1]]
         /\ \A k \in 1..Len(reply.settled.cleaned) :
              ~IsControl(reply.settled.cleaned[k])
         /\ \E f \in [1..Len(reply.settled.cleaned) -> i..j] :
              /\ \A k \in 1..Len(reply.settled.cleaned) :
                   /\ text[f[k]] = reply.settled.cleaned[k]
                   /\ k > 1 => f[k - 1] < f[k]
              /\ \A m \in i..j :
                   ~IsControl(text[m]) => \E k \in 1..Len(reply.settled.cleaned) : f[k] = m
         /\ reply.settled.returned = (reply.settled.cleaned = <<"{", "}">>)

\* prose before the block, a control character inside it: {} is parsed
C32_Witness ==
  /\ reply.pc = "settled"
  /\ reply.response.text = <<"a", "{", "del", "}">>
  /\ reply.settled.candidate = <<"{", "del", "}">>
  /\ reply.settled.cleaned = <<"{", "}">>
  /\ reply.settled.returned

\* ---------------------------------------------------------------- C33
\* C33: every rejection of analyzeCropImage carries exactly one of the two
\* messages API_KEY_NOT_CONFIGURED or ANALYSIS_FAILED, whatever was thrown
\* inside; a missing API key fails with API_KEY_NOT_CONFIGURED before any
\* model call is made.
C33_RejectionsCarryOneOfTwoMessages ==
  reply.pc = "settled" =>
    /\ reply.settled.returned = (reply.settled.message = "")
    /\ (~reply.settled.returned =>
          reply.settled.message \in {"API_KEY_NOT_CONFIGURED", "ANALYSIS_FAILED"})
    /\ (~apiKey => /\ ~reply.settled.called
                   /\ ~reply.settled.returned
                   /\ reply.settled.message = "API_KEY_NOT_CONFIGURED")
    /\ (reply.settled.message = "API_KEY_NOT_CONFIGURED" => ~apiKey)

\* an error of the transport was replaced by ANALYSIS_FAILED
C33_Witness ==
  /\ reply.pc = "settled"
  /\ reply.response.kind = "transport"
  /\ reply.settled.called
  /\ reply.settled.thrown = "fetch failed"
  /\ reply.settled.message = "ANALYSIS_FAILED"

\* ---------------------------------------------------------------- C34
\* the map and web chunks of the response metadata, in order
MapOrWebChunks(chunks) ==
  LET Cited(ch) == ch.kind \in {"maps", "web"} IN SelectSeq(chunks.list, Cited)

\* C34: the groundingLinks of a returned result is the ordered list of one
\* {title, uri} per map or web chunk of the response metadata, using the
\* chunk's own title when present and a generic label otherwise; with no
\* grounding metadata it is the empty list, not an error and not absent.
C34_GroundingLinksLifted ==
  (reply.pc = "settled" /\ apiKey /\ reply.response.kind = "text"
     /\ reply.response.text = <<"{", "}">>) =>
    LET cited == MapOrWebChunks(reply.response.chunks)
        links == reply.settled.groundingLinks
    IN /\ reply.settled.returned
       /\ links.present
       /\ Len(links.list) = Len(cited)
       /\ \A k \in 1..Len(cited) :
            /\ links.list[k].uri = cited[k].uri
            /\ cited[k].title # "" => links.list[k].title = cited[k].title
            /\ cited[k].title = "" => links.list[k].title # ""

\* ---------------------------------------------------------------- C35
\* C35: decodeAudioData does not fail on a byte input of odd length n: it
\* drops the final byte and decodes floor(n/2) samples from the remaining
\* bytes.
C35_OddLengthIsTruncated ==
  (decoding.pc = "decoded" /\ Len(decoding.payload) % 2 = 1) =>
    /\ ~decoding.failed
    /\ Len(decoding.channelData) = Len(decoding.payload) \div 2
    /\ \A k \in 1..Len(decoding.channelData) :
         LET u == decoding.payload[2 * k - 1] + 256 * decoding.payload[2 * k]
         IN /\ decoding.channelData[k].den = 32768
            /\ decoding.channelData[k].num \in {u, u - 65536}
            /\ decoding.channelData[k].num \in -32768..32767

\* ---------------------------------------------------------------- C36
\* C36: for every sequence of signed 16-bit samples, encoding them as
\* little-endian byte pairs and base64 and decoding with decodeBase64 then
\* decodeAudioData (one channel) yields, in the same order, the value
\* sample/32768 for each sample, every value lying in [-1, 1].
C36_DecoderRoundTrip ==
  (decoding.pc = "decoded" /\ decoding.encoded) =>
    /\ ~decoding.failed
    /\ Len(decoding.channelData) = Len(decoding.pcm)
    /\ \A k \in 1..Len(decoding.pcm) :
         /\ decoding.channelData[k] = Float(decoding.pcm[k], 32768)
         /\ -decoding.channelData[k].den <= decoding.channelData[k].num
         /\ decoding.channelData[k].num <= decoding.channelData[k].den

\* ---------------------------------------------------------------- C37
\* C37: opening a history item puts the item's stored result into the cache
\* under the language it was produced for, and selecting that language in the
\* detail view is answered from the cache: the step starts no request (no
\* geolocation lookup, no model call, no analysis in flight).
C37_ViewedItemIsCached ==
  [][/\ ev'.by = "view" =>
          cache'[historyDetail'.image][historyDetail'.result.language]
            = historyDetail'.result
     /\ (screen = HISTORY_DETAIL /\ language' # language
           /\ language' = historyDetail.result.language) =>
          (ev'.io = "none" /\ analysis'.pc = "idle")]_vars

\* ---------------------------------------------------------------- C38
\* C38: whenever Results or HistoryDetail shows and no analysis is in flight,
\* the result on display was produced for the active language.
C38_ShownResultInActiveLanguage ==
  (Mounted(screen) /\ analysis.pc = "idle") => ShownResult.language = language

\* ---------------------------------------------------------------- C39
\* C39: every source started by the mounted results screen that is playing is
\* the one audioSourceRef refers to, and isSpeaking is true while it plays (so
\* one toggle stops it); in particular no ended callback of an earlier source
\* has cleared the reference or the flag of a source that still plays.
C39_PlayingSourceIsReferenced ==
  \A i \in LivePlaying(audio) : audio[i].ref /\ isSpeaking

====
